---- MODULE Spec2Model ----
(***************************************************************************)
(* The /generate-report endpoint of the RAG conversational agent           *)
(* (src/main.py, generate_report) with its collaborators: the RAG chain    *)
(* (get_rag_chain), the self-correction chain (fix_n1ql_chain), the query  *)
(* executor (database.execute_n1ql_query) and the summary chain            *)
(* (get_summary_chain).  One request is followed from its arrival to its   *)
(* HTTP response; each action is the stretch of the handler that ends in   *)
(* one collaborator call, with everything the handler does on its result.  *)
(***************************************************************************)
EXTENDS Integers, Sequences, FiniteSets, TLC

VARIABLES
    llm,             \* rag_chain.llm is not None
    retriever,       \* rag_chain.retriever is not None
    cluster,         \* database.cluster is not None
    pc,              \* position of the handler
    user_query,      \* request.query
    attempt,         \* loop variable of `for attempt in range(max_retries)`
    last_error,      \* local last_error
    query_result,    \* local query_result
    generated_n1ql,  \* local generated_n1ql
    response,        \* what the HTTP caller receives
    calls,           \* history: the collaborator calls made, in order
    log,             \* history: the failure lines printed
    cancelled,       \* whether the client gave the request up, and when
    current,         \* the request whose handler is running
    parked,          \* the locals of the requests that are not running
    memo             \* what deterministic collaborators have answered so far

vars == <<llm, retriever, cluster, pc, user_query, attempt, last_error,
          query_result, generated_n1ql, response, calls, log,
          cancelled, current, parked, memo>>

-----------------------------------------------------------------------------
(* Bounds of the model *)

NumQuestions == 1
NumQueries == 2
NumErrors == 3
NumRowValues == 1
MaxRows == 2
NumReports == 1

(* Program constant *)
max_retries == 3

-----------------------------------------------------------------------------
(* Python values *)

PyNone == [type |-> "NoneType"]
PyStr(s) == [type |-> "str", val |-> s]
PyObj == [type |-> "object", val |-> "obj"]
PyList(rows) == [type |-> "list", val |-> rows]

\* bool(v), as `not generated_n1ql` evaluates it
Truthy(v) ==
    CASE v.type = "NoneType" -> FALSE
      [] v.type = "str" -> v.val # ""
      [] v.type = "list" -> v.val # <<>>
      [] OTHER -> TRUE

IsInstanceStr(v) == v.type = "str"

Questions == {"question " \o ToString(i) : i \in 1..NumQuestions}
QueryTexts == {"SELECT " \o ToString(i) : i \in 1..NumQueries}
ErrorMessages == {"error " \o ToString(i) : i \in 1..NumErrors}
Reports == {"report " \o ToString(i) : i \in 1..NumReports}

\* what a chain's invoke can hand back: a query text, the empty string,
\* None, or a non-string object
GenOutputs == {PyStr(q) : q \in QueryTexts \cup {""}} \cup {PyNone, PyObj}

Row(n) == [count |-> n]
RowSeqs == UNION {[1..k -> {Row(n) : n \in 1..NumRowValues}] : k \in 0..MaxRows}

Exc(cls, msg) == [cls |-> cls, msg |-> msg]
\* str(e)
StrOfExc(e) == PyStr(e.msg)

GenerationErrors == {Exc("Exception", m) : m \in ErrorMessages}
CouchbaseErrors == {Exc("CouchbaseException", m) : m \in ErrorMessages}

RagNotInitialized ==
    Exc("ConnectionError",
        "RAG chain dependencies (retriever or llm) are not initialized.")
SummaryNotInitialized ==
    Exc("ConnectionError",
        "Summarization chain dependency (llm) is not initialized.")
ClusterNotConnected ==
    Exc("ConnectionError", "Couchbase cluster is not connected.")
PipeTypeError ==
    Exc("TypeError", "unsupported operand type(s) for |")

InvalidN1qlMessage == "LLM failed to generate a valid N1QL string."
NoValidQueryDetail ==
    "Unable to get data at this time. The AI agent could not generate a valid query after multiple attempts."

\* json.dumps(query_result, indent=2) of a list of {"count": n} rows; the
\* text is kept as its sequence of JSON tokens
RECURSIVE DumpRowsFrom(_, _)
DumpRowsFrom(rows, i) ==
    IF i > Len(rows) THEN <<>>
    ELSE <<"{", "\"count\"", ":", ToString(rows[i].count), "}">>
         \o (IF i < Len(rows) THEN <<",">> ELSE <<>>)
         \o DumpRowsFrom(rows, i + 1)

JsonDumps(v) ==
    IF v.type = "NoneType" THEN <<"null">>
    ELSE <<"[">> \o DumpRowsFrom(v.val, 1) \o <<"]">>

Returned(v) == [kind |-> "returned", value |-> v]
Raised(e) == [kind |-> "raised", value |-> e]

Call(op, a, args, out) == [op |-> op, attempt |-> a, args |-> args, out |-> out]

-----------------------------------------------------------------------------
(* HTTP responses *)

QueryResponse(report, n1ql, result) ==
    [status |-> 200, report |-> report, generated_n1ql |-> n1ql, result |-> result]

HTTPException(status_code, detail) ==
    [status |-> status_code, detail |-> detail]

\* an exception that leaves the handler uncaught: the server answers 500
UnhandledError(e) == [status |-> 500, unhandled |-> e.cls]

\* the requests in the server at one time
Requests == {"r1", "r2"}

\* the locals of a call of generate_report that has not started
InitialFrame ==
    [pc |-> "idle", user_query |-> PyNone, attempt |-> 0, last_error |-> PyNone,
     query_result |-> PyNone, generated_n1ql |-> PyStr(""), response |-> PyNone,
     calls |-> <<>>, log |-> <<>>]

NotCancelled == [flag |-> FALSE, calls |-> 0]

-----------------------------------------------------------------------------
Init ==
    /\ llm \in BOOLEAN
    /\ retriever \in BOOLEAN
    /\ cluster \in BOOLEAN
    /\ pc = "idle"
    /\ user_query = PyNone
    /\ attempt = 0
    /\ last_error = PyNone
    /\ query_result = PyNone
    /\ generated_n1ql = PyStr("")
    /\ response = PyNone
    /\ calls = <<>>
    /\ log = <<>>
    /\ cancelled = NotCancelled
    /\ current = "r1"
    /\ parked = [r \in Requests |-> InitialFrame]
    /\ memo = <<>>

-----------------------------------------------------------------------------
(* The retry loop of generate_report *)

\* range(max_retries + 1): one iteration too many
InRangeOffByOne(a) == a \in 0..max_retries

\* while True: the loop has no bound
InRangeUnbounded(a) == a >= 0

\* `for attempt in range(max_retries)`: the loop body runs for these values
InRange(a) == a \in 0..(max_retries - 1)

\* the test inverted: `if query_result is not None`
NoResultInverted(qr) == qr # PyNone

\* the test by truth value: `if not query_result`
NoResultFalsy(qr) == ~Truthy(qr)

\* the test after the loop forgotten: the summarization always follows
NoResultNever(qr) == FALSE

\* `if query_result is None` after the loop
NoResult(qr) == qr = PyNone

\* the emptiness test forgotten: `if not isinstance(generated_n1ql, str)`
UnusableIgnoresEmpty(v) == ~IsInstanceStr(v)

\* `if not generated_n1ql or not isinstance(generated_n1ql, str)`
Unusable(v) == ~Truthy(v) \/ ~IsInstanceStr(v)

\* the first error is kept and later ones are dropped
ErrorKeptStale(e) == IF last_error = PyNone THEN StrOfExc(e) ELSE last_error

\* the text the except clause keeps: last_error = str(e)
ErrorKept(e) == StrOfExc(e)

\* the arguments of fix_n1ql_chain.invoke
FixInput(question, failed, error) ==
    [question |-> question, failed_query |-> failed, error_message |-> error]

\* the arguments of summary_chain.invoke
SummaryInput(question, rows) ==
    [question |-> question, query_result |-> JsonDumps(rows)]

\* the lines the except clause prints
AttemptFailedLines(a, msg) ==
    <<[src |-> "main.py:127", attempt |-> a + 1, msg |-> msg]>>
    \o (IF a = max_retries - 1
        THEN <<[src |-> "main.py:130", msg |-> PyStr("All retry attempts failed.")]>>
        ELSE <<>>)

\* The end of one iteration that did not break: the next iteration starts,
\* or the loop is over and the handler checks query_result.
NextIteration ==
    IF InRange(attempt + 1)
    THEN /\ attempt' = attempt + 1
         /\ pc' = "loop"
         /\ response' = response
    ELSE /\ attempt' = attempt
         /\ IF NoResult(query_result')
            THEN /\ pc' = "done"
                 /\ response' = HTTPException(500, NoValidQueryDetail)
            ELSE /\ pc' = "summarize"
                 /\ response' = response

\* except Exception as e: (lines 125-130), then the next iteration
ExceptHandler(e, printed) ==
    /\ last_error' = ErrorKept(e)
    /\ log' = log \o printed \o AttemptFailedLines(attempt, ErrorKept(e))
    /\ query_result' = query_result
    /\ NextIteration

\* the corrected text is checked but the first candidate stays current
AfterGenerationKeepsFirst(v) ==
    /\ generated_n1ql' = IF attempt = 0 THEN v ELSE generated_n1ql
    /\ IF Unusable(v)
       THEN /\ last_error' = PyStr(InvalidN1qlMessage)
            /\ query_result' = query_result
            /\ log' = log
            /\ NextIteration
       ELSE /\ pc' = "execute"
            /\ UNCHANGED <<attempt, last_error, query_result, response, log>>

\* unusable text skips the attempt but the error of an earlier one stays
AfterGenerationKeepsError(v) ==
    /\ generated_n1ql' = v
    /\ IF Unusable(v)
       THEN /\ last_error' = last_error
            /\ query_result' = query_result
            /\ log' = log
            /\ NextIteration
       ELSE /\ pc' = "execute"
            /\ UNCHANGED <<attempt, last_error, query_result, response, log>>

\* the assignment of the chain's output (lines 106, 110) and lines 116-121
AfterGeneration(v) ==
    /\ generated_n1ql' = v
    /\ IF Unusable(v)
       THEN /\ last_error' = PyStr(InvalidN1qlMessage)
            /\ query_result' = query_result
            /\ log' = log
            /\ NextIteration
       ELSE /\ pc' = "execute"
            /\ UNCHANGED <<attempt, last_error, query_result, response, log>>

\* lines 70-96: the request arrives, the locals are set, the fix chain is
\* built.  `FIX_N1QL_PROMPT | rag_chain.llm` with llm None raises TypeError
\* outside any try block.
ReceiveRequest ==
    /\ pc = "idle"
    /\ \E q \in Questions :
        /\ user_query' = PyStr(q)
        /\ attempt' = 0
        /\ last_error' = PyNone
        /\ query_result' = PyNone
        /\ generated_n1ql' = PyStr("")
        /\ IF llm
           THEN /\ pc' = "loop"
                /\ response' = response
           ELSE /\ pc' = "done"
                /\ response' = UnhandledError(PipeTypeError)
    /\ UNCHANGED <<llm, retriever, cluster, calls, log>>

\* attempt 0, lines 102-106 and 116-118: get_rag_chain() raises
SynthesizeUnavailable ==
    /\ pc = "loop" /\ InRange(attempt) /\ attempt = 0
    /\ ~retriever \/ ~llm
    /\ calls' = Append(calls, Call("synthesize", attempt, user_query,
                                   Raised(RagNotInitialized)))
    /\ generated_n1ql' = generated_n1ql
    /\ ExceptHandler(RagNotInitialized, <<>>)
    /\ UNCHANGED <<llm, retriever, cluster, user_query>>

\* attempt 0: the RAG chain returns text
SynthesizeReturns ==
    /\ pc = "loop" /\ InRange(attempt) /\ attempt = 0
    /\ retriever /\ llm
    /\ \E v \in GenOutputs :
        /\ calls' = Append(calls, Call("synthesize", attempt, user_query, Returned(v)))
        /\ AfterGeneration(v)
    /\ UNCHANGED <<llm, retriever, cluster, user_query>>

\* attempt 0: the retriever or the LLM raises inside invoke
SynthesizeRaises ==
    /\ pc = "loop" /\ InRange(attempt) /\ attempt = 0
    /\ retriever /\ llm
    /\ \E e \in GenerationErrors :
        /\ calls' = Append(calls, Call("synthesize", attempt, user_query, Raised(e)))
        /\ generated_n1ql' = generated_n1ql
        /\ ExceptHandler(e, <<>>)
    /\ UNCHANGED <<llm, retriever, cluster, user_query>>

\* attempts 1.., lines 107-118: the fix chain returns text
CorrectReturns ==
    /\ pc = "loop" /\ InRange(attempt) /\ attempt # 0
    /\ \E v \in GenOutputs :
        /\ calls' = Append(calls,
              Call("correct", attempt,
                   FixInput(user_query, generated_n1ql, last_error), Returned(v)))
        /\ AfterGeneration(v)
    /\ UNCHANGED <<llm, retriever, cluster, user_query>>

\* attempts 1..: the LLM raises inside the fix chain
CorrectRaises ==
    /\ pc = "loop" /\ InRange(attempt) /\ attempt # 0
    /\ \E e \in GenerationErrors :
        /\ calls' = Append(calls,
              Call("correct", attempt,
                   FixInput(user_query, generated_n1ql, last_error), Raised(e)))
        /\ generated_n1ql' = generated_n1ql
        /\ ExceptHandler(e, <<>>)
    /\ UNCHANGED <<llm, retriever, cluster, user_query>>

\* the `break` forgotten: the loop goes on after a successful execution
ExecuteSucceedsNoBreak ==
    /\ pc = "execute"
    /\ cluster
    /\ \E rows \in RowSeqs :
        /\ calls' = Append(calls, Call("execute", attempt, generated_n1ql,
                                       Returned(PyList(rows))))
        /\ query_result' = PyList(rows)
    /\ NextIteration
    /\ UNCHANGED <<llm, retriever, cluster, user_query, last_error,
                   generated_n1ql, log>>

\* lines 120-123 with database.execute_n1ql_query returning rows: break
ExecuteSucceeds ==
    /\ pc = "execute"
    /\ cluster
    /\ \E rows \in RowSeqs :
        /\ calls' = Append(calls, Call("execute", attempt, generated_n1ql,
                                       Returned(PyList(rows))))
        /\ query_result' = PyList(rows)
    /\ pc' = IF NoResult(query_result') THEN "done" ELSE "summarize"
    /\ response' = IF NoResult(query_result')
                   THEN HTTPException(500, NoValidQueryDetail) ELSE response
    /\ UNCHANGED <<llm, retriever, cluster, user_query, attempt, last_error,
                   generated_n1ql, log>>

\* `except CouchbaseException` in the loop: the ConnectionError of a missing
\* cluster is not caught and ends the request
ExecuteFailsConnectionFatal ==
    /\ pc = "execute"
    /\ IF cluster
       THEN \E e \in CouchbaseErrors :
              /\ calls' = Append(calls, Call("execute", attempt, generated_n1ql, Raised(e)))
              /\ ExceptHandler(e, <<[src |-> "database.py:56", msg |-> StrOfExc(e)]>>)
       ELSE /\ calls' = Append(calls, Call("execute", attempt, generated_n1ql,
                                           Raised(ClusterNotConnected)))
            /\ pc' = "done"
            /\ response' = UnhandledError(ClusterNotConnected)
            /\ UNCHANGED <<attempt, last_error, query_result, log>>
    /\ UNCHANGED <<llm, retriever, cluster, user_query, generated_n1ql>>

\* a failed query is executed again as it is, with no correction in between
ExecuteFailsRetriesSameQuery ==
    /\ pc = "execute"
    /\ \E e \in (IF cluster THEN CouchbaseErrors ELSE {ClusterNotConnected}) :
        /\ calls' = Append(calls, Call("execute", attempt, generated_n1ql, Raised(e)))
        /\ last_error' = ErrorKept(e)
        /\ log' = log \o AttemptFailedLines(attempt, ErrorKept(e))
    /\ IF InRange(attempt + 1)
       THEN /\ attempt' = attempt + 1
            /\ pc' = "execute"
            /\ response' = response
       ELSE /\ attempt' = attempt
            /\ pc' = "done"
            /\ response' = HTTPException(500, NoValidQueryDetail)
    /\ UNCHANGED <<llm, retriever, cluster, user_query, generated_n1ql, query_result>>

\* execute_n1ql_query raises: the cluster is not connected (line 49), or
\* cluster.query raises and the error is printed and re-raised (55-58)
ExecuteFails ==
    /\ pc = "execute"
    /\ \E e \in (IF cluster THEN CouchbaseErrors ELSE {ClusterNotConnected}) :
        /\ calls' = Append(calls, Call("execute", attempt, generated_n1ql, Raised(e)))
        /\ ExceptHandler(e,
              IF cluster
              THEN <<[src |-> "database.py:56", msg |-> StrOfExc(e)]>>
              ELSE <<>>)
    /\ UNCHANGED <<llm, retriever, cluster, user_query, generated_n1ql>>

\* lines 140-156: the summary chain returns the report
SummarizeReturns ==
    /\ pc = "summarize"
    /\ llm
    /\ \E r \in Reports :
        /\ calls' = Append(calls,
              Call("summarize", attempt, SummaryInput(user_query, query_result),
                   Returned(PyStr(r))))
        /\ response' = QueryResponse(PyStr(r), generated_n1ql,
                                     SummaryInput(user_query, query_result).query_result)
    /\ pc' = "done"
    /\ UNCHANGED <<llm, retriever, cluster, user_query, attempt, last_error,
                   query_result, generated_n1ql, log>>

\* the summarization inside the loop's try block: its failure is one more
\* failed attempt
SummarizeRaisesRetries ==
    /\ pc = "summarize"
    /\ \E e \in (IF llm THEN GenerationErrors ELSE {SummaryNotInitialized}) :
        /\ calls' = Append(calls,
              Call("summarize", attempt, SummaryInput(user_query, query_result),
                   Raised(e)))
        /\ last_error' = ErrorKept(e)
        /\ log' = log \o AttemptFailedLines(attempt, ErrorKept(e))
    /\ IF InRange(attempt + 1)
       THEN /\ attempt' = attempt + 1
            /\ pc' = "loop"
            /\ response' = response
       ELSE /\ attempt' = attempt
            /\ pc' = "done"
            /\ response' = HTTPException(500, NoValidQueryDetail)
    /\ UNCHANGED <<llm, retriever, cluster, user_query, query_result, generated_n1ql>>

\* lines 157-159: anything raised during summarization
SummarizeRaises ==
    /\ pc = "summarize"
    /\ \E e \in (IF llm THEN GenerationErrors ELSE {SummaryNotInitialized}) :
        /\ calls' = Append(calls,
              Call("summarize", attempt, SummaryInput(user_query, query_result),
                   Raised(e)))
        /\ response' = HTTPException(500, StrOfExc(e).val)
        /\ log' = Append(log, [src |-> "main.py:158", msg |-> StrOfExc(e)])
    /\ pc' = "done"
    /\ UNCHANGED <<llm, retriever, cluster, user_query, attempt, last_error,
                   query_result, generated_n1ql>>

\* one request, never given up, with collaborators free to answer anything
Alone == UNCHANGED <<cancelled, current, parked, memo>>

Next ==
    \/ ReceiveRequest /\ Alone
    \/ SynthesizeUnavailable /\ Alone
    \/ SynthesizeReturns /\ Alone
    \/ SynthesizeRaises /\ Alone
    \/ CorrectReturns /\ Alone
    \/ CorrectRaises /\ Alone
    \/ ExecuteSucceeds /\ Alone
    \/ ExecuteFails /\ Alone
    \/ SummarizeReturns /\ Alone
    \/ SummarizeRaises /\ Alone

Spec == Init /\ [][Next]_vars

\* every collaborator call returns or raises, and the handler runs on
FairSpec == Spec /\ WF_vars(Next)

-----------------------------------------------------------------------------
(* Cancellation.  The client may give the request up at any moment.  The
   handler has no await and reads no cancellation flag, so nothing in it
   depends on `cancelled`. *)

Cancel ==
    /\ pc \in {"loop", "execute", "summarize"}
    /\ ~cancelled.flag
    /\ cancelled' = [flag |-> TRUE, calls |-> Len(calls)]
    /\ UNCHANGED <<llm, retriever, cluster, pc, user_query, attempt, last_error,
                   query_result, generated_n1ql, response, calls, log,
                   current, parked, memo>>

NotSwitched == UNCHANGED <<current, parked, memo>>

CancelNext ==
    \/ ReceiveRequest /\ NotSwitched /\ UNCHANGED cancelled
    \/ SynthesizeUnavailable /\ NotSwitched /\ UNCHANGED cancelled
    \/ SynthesizeReturns /\ NotSwitched /\ UNCHANGED cancelled
    \/ SynthesizeRaises /\ NotSwitched /\ UNCHANGED cancelled
    \/ CorrectReturns /\ NotSwitched /\ UNCHANGED cancelled
    \/ CorrectRaises /\ NotSwitched /\ UNCHANGED cancelled
    \/ ExecuteSucceeds /\ NotSwitched /\ UNCHANGED cancelled
    \/ ExecuteFails /\ NotSwitched /\ UNCHANGED cancelled
    \/ SummarizeReturns /\ NotSwitched /\ UNCHANGED cancelled
    \/ SummarizeRaises /\ NotSwitched /\ UNCHANGED cancelled
    \/ Cancel

CancelSpec == Init /\ [][CancelNext]_vars

-----------------------------------------------------------------------------
(* Two requests in one server.  Every call of generate_report has its own
   locals; the module globals llm, retriever and cluster are only read.
   The handler has no await, so the event loop runs a request to its
   response before the next one starts; the model lets the requests take
   turns between any two collaborator calls, which includes that schedule.
   The collaborators are deterministic here: asked the same thing again,
   they answer the same, and both requests carry the same question. *)

\* the locals of the running call of generate_report (lines 70-76), with
\* its position, its response and its history
Frame ==
    [pc |-> pc, user_query |-> user_query, attempt |-> attempt,
     last_error |-> last_error, query_result |-> query_result,
     generated_n1ql |-> generated_n1ql, response |-> response,
     calls |-> calls, log |-> log]

\* last_error as a module-level variable, shared by all the requests
ResumeSharedError(f) ==
    /\ pc' = f.pc
    /\ user_query' = f.user_query
    /\ attempt' = f.attempt
    /\ last_error' = last_error
    /\ query_result' = f.query_result
    /\ generated_n1ql' = f.generated_n1ql
    /\ response' = f.response
    /\ calls' = f.calls
    /\ log' = f.log

\* generated_n1ql as a module-level variable, shared by all the requests
ResumeSharedQuery(f) ==
    /\ pc' = f.pc
    /\ user_query' = f.user_query
    /\ attempt' = f.attempt
    /\ last_error' = f.last_error
    /\ query_result' = f.query_result
    /\ generated_n1ql' = generated_n1ql
    /\ response' = f.response
    /\ calls' = f.calls
    /\ log' = f.log

\* a call of generate_report goes on with its own locals
Resume(f) ==
    /\ pc' = f.pc
    /\ user_query' = f.user_query
    /\ attempt' = f.attempt
    /\ last_error' = f.last_error
    /\ query_result' = f.query_result
    /\ generated_n1ql' = f.generated_n1ql
    /\ response' = f.response
    /\ calls' = f.calls
    /\ log' = f.log

\* the other request gets its turn
Switch(r) ==
    /\ r # current
    /\ pc # "idle"
    /\ current' = r
    /\ parked' = [parked EXCEPT ![current] = Frame, ![r] = InitialFrame]
    /\ Resume(parked[r])
    /\ UNCHANGED <<llm, retriever, cluster, cancelled, memo>>

\* the call just made is answered as the same call was answered before
Oracle ==
    LET c == calls'[Len(calls')]
        known == {i \in 1..Len(memo) : memo[i].op = c.op /\ memo[i].args = c.args}
    IN  IF known # {}
        THEN /\ \A i \in known : memo[i].out = c.out
             /\ memo' = memo
        ELSE memo' = Append(memo, [op |-> c.op, args |-> c.args, out |-> c.out])

\* rows and report are passed on as they are and decide no step of the
\* handler: with two requests one row and one report stand for them
OnePayload ==
    LET c == calls'[Len(calls')]
    IN  c.out.kind = "returned" =>
            /\ c.op = "execute" => c.out.value.val \in {<<>>, <<Row(1)>>}
            /\ c.op = "summarize" => c.out.value = PyStr("report 1")

\* the question is the one the other request carries
SameQuestion ==
    \A r \in Requests \ {current} :
        parked[r].pc # "idle" => user_query' = parked[r].user_query

Scheduled == UNCHANGED <<cancelled, current, parked>>

TwoNext ==
    \/ ReceiveRequest /\ SameQuestion /\ Scheduled /\ UNCHANGED memo
    \/ SynthesizeUnavailable /\ Oracle /\ Scheduled
    \/ SynthesizeReturns /\ Oracle /\ Scheduled
    \/ SynthesizeRaises /\ Oracle /\ Scheduled
    \/ CorrectReturns /\ Oracle /\ Scheduled
    \/ CorrectRaises /\ Oracle /\ Scheduled
    \/ ExecuteSucceeds /\ OnePayload /\ Oracle /\ Scheduled
    \/ ExecuteFails /\ Oracle /\ Scheduled
    \/ SummarizeReturns /\ OnePayload /\ Oracle /\ Scheduled
    \/ SummarizeRaises /\ Oracle /\ Scheduled
    \/ \E r \in Requests : Switch(r)

TwoSpec == Init /\ [][TwoNext]_vars

-----------------------------------------------------------------------------
(* What the history says *)

CallsOf(op) == {i \in 1..Len(calls) : calls[i].op = op}
Generations == CallsOf("synthesize") \cup CallsOf("correct")
ReturnedCalls(op) == {i \in CallsOf(op) : calls[i].out.kind = "returned"}
RaisedCalls(op) == {i \in CallsOf(op) : calls[i].out.kind = "raised"}
UnusableGenerations ==
    {i \in Generations :
        /\ calls[i].out.kind = "returned"
        /\ \/ calls[i].out.value.type # "str"
           \/ calls[i].out.value = PyStr("")}
Responded == pc = "done" /\ response # PyNone
IsNoValidQuery(r) == r = [status |-> 500, detail |-> NoValidQueryDetail]

-----------------------------------------------------------------------------
(* C1: one request makes at most max_retries executor calls and at most
   max_retries - 1 Corrector (fix chain) calls, whatever the generator and
   the executor do. *)
C1_CallBudget ==
    /\ Cardinality(CallsOf("execute")) <= max_retries
    /\ Cardinality(CallsOf("correct")) <= max_retries - 1

\* the budget is used up: three executions and two corrections
C1_Witness ==
    /\ Cardinality(CallsOf("execute")) = max_retries
    /\ Cardinality(CallsOf("correct")) = max_retries - 1

(* C2: when the executor has failed on every one of the max_retries attempts
   the request is over with the NoValidQuery failure (HTTP 500, no report),
   and the executor was called exactly max_retries times, never once more. *)
C2_AllFailedIsNoValidQuery ==
    Cardinality(RaisedCalls("execute")) >= max_retries
        => /\ pc = "done"
           /\ IsNoValidQuery(response)
           /\ "report" \notin DOMAIN response
           /\ Cardinality(CallsOf("execute")) = max_retries

C2_Witness ==
    /\ Cardinality(RaisedCalls("execute")) = max_retries
    /\ pc = "done"

(* C3: provided every collaborator call returns or raises, every request
   reaches a response, and it does so within max_retries generation calls,
   however often the generator produces unusable or failing queries. *)
C3_Termination ==
    /\ [](Cardinality(Generations) <= max_retries)
    /\ <>Responded

\* a request that ended after the generator gave unusable text on all attempts
C3_Witness ==
    /\ Responded
    /\ Cardinality(UnusableGenerations) = max_retries

\* json.loads: the rows a dumped text stands for
JsonNumber(tok) == CHOOSE n \in 0..(NumRowValues + 1) : ToString(n) = tok
JsonLoads(tokens) ==
    [k \in 1..((Len(tokens) - 1) \div 6) |-> Row(JsonNumber(tokens[6 * k - 1]))]

(* C4: whenever a request succeeds, the query executed is the text the
   generation call of that attempt returned (the corrected text from
   attempt 2 on), the generated query in the response is that executed
   text, and the rows given to the Summarizer and returned as result are
   the rows this execution returned. *)
C4_SuccessReturnsExecutedQuery ==
    /\ \A j \in ReturnedCalls("execute") :
          /\ j - 1 \in Generations
          /\ calls[j - 1].attempt = calls[j].attempt
          /\ calls[j - 1].out = Returned(calls[j].args)
          /\ calls[j - 1].op = (IF calls[j].attempt = 0 THEN "synthesize" ELSE "correct")
    /\ \A i \in CallsOf("summarize") :
          /\ i - 1 \in ReturnedCalls("execute")
          /\ JsonLoads(calls[i].args.query_result) = calls[i - 1].out.value.val
    /\ (pc = "done" /\ response.status = 200)
          => /\ Len(calls) - 1 \in ReturnedCalls("execute")
             /\ response.generated_n1ql = calls[Len(calls) - 1].args
             /\ JsonLoads(response.result) = calls[Len(calls) - 1].out.value.val

\* success on the second attempt with a corrected text that differs from
\* the first candidate, and two rows returned
C4_Witness ==
    /\ pc = "done" /\ response.status = 200
    /\ Len(calls) = 5
    /\ calls[4].attempt = 1
    /\ calls[4].args # calls[2].args
    /\ Len(calls[4].out.value.val) = 2

(* C5: a Corrector call that follows a failed execution receives the error
   message of that execution, the one of the attempt just before it, never
   the message of an earlier attempt. *)
C5_CorrectorGetsLatestError ==
    \A i \in CallsOf("correct") :
        calls[i - 1].op = "execute"
            => /\ calls[i - 1].out.kind = "raised"
               /\ calls[i - 1].attempt + 1 = calls[i].attempt
               /\ calls[i].args.error_message = PyStr(calls[i - 1].out.value.msg)

\* the executor failed three times with three different messages
C5_Witness ==
    /\ Cardinality(CallsOf("correct")) = 2
    /\ Cardinality(RaisedCalls("execute")) = 3
    /\ Cardinality({calls[i].out.value.msg : i \in RaisedCalls("execute")}) = 3

(* C6: if an execution succeeds and the Summarizer then raises, the failure
   the caller receives still carries the generated query and the raw
   result. *)
C6_SummarizationFailedKeepsArtifacts ==
    (pc = "done" /\ RaisedCalls("summarize") # {})
        => /\ response.status = 500
           /\ "generated_n1ql" \in DOMAIN response
           /\ "result" \in DOMAIN response

(* C7: a retriever or text-generator failure during synthesis or correction
   is fatal: the request is over with it and no generation, correction or
   execution call follows it. *)
C7_GenerationFailureIsFatal ==
    \A i \in RaisedCalls("synthesize") \cup RaisedCalls("correct") :
        /\ i = Len(calls)
        /\ pc = "done"

(* C8: when the attempt budget is exhausted, the NoValidQuery failure
   carries the error message of the last failed attempt. *)
C8_NoValidQueryCarriesLastError ==
    (pc = "done" /\ calls # <<>> /\ CallsOf("summarize") = {})
        => /\ "detail" \in DOMAIN response
           /\ response.detail = last_error.val

(* C9: text that is empty or not a string is never given to the executor;
   such an attempt still uses up one attempt, so a generator that returns
   the empty string every time ends in NoValidQuery after exactly
   max_retries generation calls (one synthesis, then corrections) and no
   executor call. *)
C9_UnusableTextNeverExecuted ==
    /\ \A j \in CallsOf("execute") :
          calls[j].args.type = "str" /\ calls[j].args.val # ""
    /\ \A i \in UnusableGenerations :
          /\ i < Len(calls) =>
                /\ calls[i + 1].op = "correct"
                /\ calls[i + 1].attempt = calls[i].attempt + 1
          /\ i = Len(calls) =>
                IF calls[i].attempt = max_retries - 1
                THEN pc = "done" /\ IsNoValidQuery(response)
                ELSE pc = "loop" /\ attempt = calls[i].attempt + 1
    /\ (calls # <<>> /\ \A i \in 1..Len(calls) : calls[i].out = Returned(PyStr("")))
          => /\ Len(calls) <= max_retries
             /\ CallsOf("execute") = {}
             /\ CallsOf("synthesize") \subseteq {1}
             /\ pc = "done" <=> Len(calls) = max_retries
             /\ pc = "done" => IsNoValidQuery(response)

\* the generator returned the empty string on all three attempts
C9_Witness ==
    /\ pc = "done"
    /\ Len(calls) = max_retries
    /\ \A i \in 1..Len(calls) : calls[i].out = Returned(PyStr(""))

(* C10: once an execution succeeds the loop stops: a success on attempt k
   (1-based) comes after exactly k - 1 Corrector calls, and only the
   Summarizer is called after it. *)
C10_SuccessStopsLoop ==
    \A j \in ReturnedCalls("execute") :
        /\ Cardinality(CallsOf("correct")) = calls[j].attempt
        /\ \A i \in (j + 1)..Len(calls) : calls[i].op = "summarize"
        /\ pc \in {"summarize", "done"}

\* a request answered after its third attempt succeeded
C10_Witness ==
    /\ pc = "done"
    /\ \E j \in ReturnedCalls("execute") : calls[j].attempt = max_retries - 1

-----------------------------------------------------------------------------
\* what a call left behind when it did not give a result to go on with
IsFailure(c) ==
    \/ c.out.kind = "raised"
    \/ /\ c.op \in {"synthesize", "correct"}
       /\ \/ c.out.value.type # "str"
          \/ c.out.value = PyStr("")
FailureMessage(c) ==
    IF c.out.kind = "raised" THEN PyStr(c.out.value.msg) ELSE PyStr(InvalidN1qlMessage)

(* C12: a Summarizer failure never re-enters the query-generation loop:
   the Summarizer call that raised is the last call of the request, so no
   Synthesizer, Corrector or executor call and no second Summarizer call
   follows it. *)
C12_SummarizerFailureEndsRequest ==
    /\ Cardinality(CallsOf("summarize")) <= 1
    /\ \A i \in RaisedCalls("summarize") :
          /\ i = Len(calls)
          /\ pc = "done"
          /\ response.status = 500

\* the Summarizer raised after an execution of the first attempt succeeded
C12_Witness ==
    /\ pc = "done"
    /\ RaisedCalls("summarize") # {}
    /\ attempt < max_retries - 1

(* C15: an executor failure of any kind, the ConnectionError of a cluster
   that is not connected included, is a failed attempt like any other: it
   uses up one attempt, its message goes to the next Corrector call, and
   on the last attempt it ends in NoValidQuery. *)
C15_ExecutorErrorsAllRetried ==
    \A j \in RaisedCalls("execute") :
        /\ j < Len(calls) =>
              /\ calls[j + 1].op = "correct"
              /\ calls[j + 1].attempt = calls[j].attempt + 1
              /\ calls[j + 1].args.error_message = PyStr(calls[j].out.value.msg)
        /\ j = Len(calls) =>
              IF calls[j].attempt = max_retries - 1
              THEN pc = "done" /\ IsNoValidQuery(response)
              ELSE /\ pc = "loop"
                   /\ attempt = calls[j].attempt + 1
                   /\ last_error = PyStr(calls[j].out.value.msg)

\* the cluster is not connected: three executions fail with the
\* ConnectionError and two Corrector calls were given its message
C15_Witness ==
    /\ ~cluster
    /\ pc = "done"
    /\ Cardinality(RaisedCalls("execute")) = max_retries
    /\ \A i \in CallsOf("correct") :
          calls[i].args.error_message = PyStr(ClusterNotConnected.msg)

(* C16: every Corrector call receives a consistent pair: the failed query
   is the candidate the generation step of the attempt before it returned,
   and the error message is the failure of that same candidate. *)
C16_CorrectorGetsConsistentPair ==
    \A i \in CallsOf("correct") :
        \E g \in Generations :
            /\ calls[g].attempt = calls[i].attempt - 1
            /\ calls[g].out.kind = "returned"
            /\ calls[i].args.failed_query = calls[g].out.value
            /\ calls[i].args.error_message = FailureMessage(calls[i - 1])

(* C17: per request the Synthesizer is invoked exactly once, as the first
   generation step, and every later candidate comes from the Corrector,
   whose input holds no retrieved context. *)
C17_SynthesizerExactlyOnce ==
    pc = "done" =>
        /\ CallsOf("synthesize") = {1}
        /\ \A i \in Generations : i # 1 => calls[i].op = "correct"
        /\ \A i \in CallsOf("correct") :
              DOMAIN calls[i].args = {"question", "failed_query", "error_message"}

(* C18: when a generation step returns empty or non-string text on an
   attempt that is not the last, the Corrector call of the next attempt
   receives the synthetic message of that attempt, not the executor error
   of an earlier one. *)
C18_UnusableTextFeedsSyntheticError ==
    \A i \in UnusableGenerations :
        calls[i].attempt < max_retries - 1 =>
            /\ i < Len(calls) =>
                  /\ calls[i + 1].op = "correct"
                  /\ calls[i + 1].attempt = calls[i].attempt + 1
                  /\ calls[i + 1].args.error_message = PyStr(InvalidN1qlMessage)
            /\ i = Len(calls) =>
                  /\ pc = "loop"
                  /\ last_error = PyStr(InvalidN1qlMessage)

\* the first execution failed, the correction came back empty, and the
\* third attempt's Corrector call has been made
C18_Witness ==
    /\ Len(calls) >= 4
    /\ calls[2].op = "execute" /\ calls[2].out.kind = "raised"
    /\ 3 \in UnusableGenerations
    /\ calls[4].op = "correct"

(* C19: no failure is silently swallowed: for every failed call and every
   unusable generated text a line is printed that holds the attempt index
   and the triggering message. *)
C19_EveryFailureLogged ==
    \A i \in 1..Len(calls) :
        IsFailure(calls[i]) =>
            \E k \in 1..Len(log) :
                /\ "attempt" \in DOMAIN log[k]
                /\ log[k].attempt = calls[i].attempt + 1
                /\ log[k].msg = FailureMessage(calls[i])

(* C20: within one request the calls are ordered: every executor call comes
   right after the generation call of the same attempt and executes exactly
   the text that call returned, and a call of the next attempt comes only
   after the call before it ended in a failure. *)
C20_CallsSequentialAndOrdered ==
    /\ \A j \in CallsOf("execute") :
          /\ j - 1 \in Generations
          /\ calls[j - 1].attempt = calls[j].attempt
          /\ calls[j - 1].out = Returned(calls[j].args)
    /\ \A i \in 1..(Len(calls) - 1) :
          \/ /\ calls[i + 1].attempt = calls[i].attempt + 1
             /\ calls[i + 1].op = "correct"
             /\ IsFailure(calls[i])
          \/ /\ calls[i + 1].attempt = calls[i].attempt
             /\ ~IsFailure(calls[i])
             /\ \/ calls[i].op \in {"synthesize", "correct"} /\ calls[i + 1].op = "execute"
                \/ calls[i].op = "execute" /\ calls[i + 1].op = "summarize"
    /\ pc = "execute" =>
          /\ calls # <<>>
          /\ calls[Len(calls)].out = Returned(generated_n1ql)
          /\ calls[Len(calls)].attempt = attempt

\* three attempts, each with its generation call and its execution
C20_Witness ==
    /\ Len(calls) >= 2 * max_retries
    /\ Cardinality(CallsOf("execute")) = max_retries

-----------------------------------------------------------------------------
\* the locals, position and history of request r, running or not
ReqState(r) == IF r = current THEN Frame ELSE parked[r]

IsPrefix(a, b) == Len(a) <= Len(b) /\ SubSeq(b, 1, Len(a)) = a

(* C11: determinism: with a fixed question and collaborators that answer
   the same call the same way, two runs of the handler make the same
   sequence of calls and end with the same response. *)
C11_Deterministic ==
    (\A r \in Requests : ReqState(r).pc = "done")
        => \A r1, r2 \in Requests :
              /\ ReqState(r1).calls = ReqState(r2).calls
              /\ ReqState(r1).response = ReqState(r2).response

\* both runs ended with a report, after a failed first attempt
C11_Witness ==
    /\ \A r \in Requests :
          /\ ReqState(r).pc = "done"
          /\ ReqState(r).response.status = 200
          /\ ReqState(r).attempt >= 1

(* C13: once the request is cancelled the handler starts no new generation
   or execution call: at most the call that was in flight at that moment
   is still made. *)
C13_CancelStopsCalls ==
    cancelled.flag => Len(calls) <= cancelled.calls + 1

(* C14: concurrent requests are independent: a step changes the locals of
   the running request only, a request goes on with exactly the locals it
   had, and with collaborators that answer the same call the same way the
   two requests make the same calls as one request alone, one being a
   prefix of the other at any moment. *)
C14_RequestsIndependent ==
    /\ [][\A r \in Requests :
             \/ r = current /\ r = current'
             \/ ReqState(r)' = ReqState(r)]_vars
    /\ [](\A r1, r2 \in Requests :
             \/ IsPrefix(ReqState(r1).calls, ReqState(r2).calls)
             \/ IsPrefix(ReqState(r2).calls, ReqState(r1).calls))

\* the two requests are under way at different attempts, with different
\* last errors
C14_Witness ==
    /\ ReqState("r1").pc = "loop" /\ ReqState("r1").attempt = 2
    /\ ReqState("r2").pc = "execute" /\ ReqState("r2").attempt = 1
    /\ ReqState("r1").last_error # ReqState("r2").last_error

-----------------------------------------------------------------------------
(* C21: an execution that returns zero rows is a success: the loop stops,
   only the Summarizer is called after it, the Summarizer gets the empty row
   set, and the response is not NoValidQuery. NoValidQuery is the response
   only of a request none of whose executions returned. *)
EmptyExecutions ==
    {j \in ReturnedCalls("execute") : calls[j].out.value = PyList(<<>>)}

C21_ZeroRowsIsSuccess ==
    /\ \A j \in EmptyExecutions :
          /\ pc \in {"summarize", "done"}
          /\ \A i \in (j + 1)..Len(calls) :
                /\ calls[i].op = "summarize"
                /\ calls[i].args.query_result = JsonDumps(PyList(<<>>))
          /\ pc = "done" =>
                /\ \E i \in (j + 1)..Len(calls) : calls[i].op = "summarize"
                /\ ~IsNoValidQuery(response)
    /\ (Responded /\ IsNoValidQuery(response)) => ReturnedCalls("execute") = {}

\* a report written from an empty row set
C21_Witness ==
    /\ pc = "done"
    /\ EmptyExecutions # {}
    /\ "report" \in DOMAIN response
    /\ response.result = JsonDumps(PyList(<<>>))

(* C22: a request calls the Summarizer at most once, and only after an
   execution has returned; a request that ended without any execution
   returning never called the Summarizer and its response carries no
   report. *)
C22_SummarizerOnceAfterSuccess ==
    /\ Cardinality(CallsOf("summarize")) <= 1
    /\ \A i \in CallsOf("summarize") :
          \E j \in ReturnedCalls("execute") : j < i
    /\ (Responded /\ ReturnedCalls("execute") = {}) =>
          /\ CallsOf("summarize") = {}
          /\ "report" \notin DOMAIN response

\* the Summarizer called once, after two failed executions and a third that
\* returned
C22_Witness ==
    /\ pc = "done"
    /\ Cardinality(CallsOf("summarize")) = 1
    /\ Cardinality(RaisedCalls("execute")) = max_retries - 1
    /\ ReturnedCalls("execute") # {}

\* all attempts failed: no Summarizer call, no report
C22_ExhaustedWitness ==
    /\ Responded
    /\ Cardinality(RaisedCalls("execute")) = max_retries
    /\ CallsOf("summarize") = {}
    /\ "report" \notin DOMAIN response

====
